---- MODULE Spec2Model ----
(***************************************************************************)
(* Verification model of the webppl execution substrate:                   *)
(*   - the CPS transformer (cps and its helpers), together with an         *)
(*     evaluator of the JavaScript subset it reads and writes, and         *)
(*   - the inference-kernel framework of src/inference/kernels.js          *)
(*     (sequenceKernel, HMCwithMHKernel, parseOptions, sequence, repeat),  *)
(*     run as a machine that takes one step per function invocation.       *)
(***************************************************************************)
EXTENDS Integers, Sequences, FiniteSets, TLC

VARIABLES
  pc,        \* CPS machine: "idle" | "source" | "compiled" | "failed" | "ran"
  input,     \* the source tree handed to cps
  output,    \* the tree cps returned (NoNode before, and when cps threw)
  thrown,    \* the error cps threw ("" when none)
  gensymCounter, \* util.gensym's counter
  cpsRun,    \* the evaluator's state after running the compiled program
  directRun, \* the evaluator's state after running the source directly
  kpc,       \* kernel machine: "idle" | "request" | "built" | "running" | "done" | "failed"
  request,   \* what the driver asked for (parseOptions / sequence / repeat)
  kernelFn,  \* the kernel function built for the request
  control,   \* the function invocation about to run
  calls,     \* every invocation of a leaf kernel, in order
  kcalls,    \* every invocation of the driver's continuation k, in order
  steps      \* number of function invocations run so far

cpsVars == <<pc, input, output, thrown, gensymCounter, cpsRun, directRun>>
kernelVars == <<kpc, request, kernelFn, control, calls, kcalls, steps>>
allVars == <<pc, input, output, thrown, gensymCounter, cpsRun, directRun,
             kpc, request, kernelFn, control, calls, kcalls, steps>>

(***************************************************************************)
(* Syntax trees.  A node is a record with a type field, as in esprima's    *)
(* output; child lists are sequences.                                      *)
(***************************************************************************)

StatementTypes == {"BlockStatement", "ExpressionStatement", "IfStatement",
                   "ReturnStatement", "VariableDeclaration", "EmptyStatement"}

ExpressionTypes == {"Identifier", "Literal", "FunctionExpression", "CallExpression",
                    "ConditionalExpression", "ArrayExpression", "ObjectExpression",
                    "MemberExpression", "UnaryExpression", "BinaryExpression",
                    "ThisExpression", "AssignmentExpression"}

identifier(name) == [type |-> "Identifier", name |-> name]
literal(value) == [type |-> "Literal", value |-> value]
functionExpression(params, body) ==
  [type |-> "FunctionExpression", params |-> params, body |-> body]
blockStatement(body) == [type |-> "BlockStatement", body |-> body]
program(body) == [type |-> "Program", body |-> body]
expressionStatement(expression) ==
  [type |-> "ExpressionStatement", expression |-> expression]
variableDeclarator(id, init) == [id |-> id, init |-> init]
variableDeclaration(declarations) ==
  [type |-> "VariableDeclaration", declarations |-> declarations]
callExpression(callee, arguments) ==
  [type |-> "CallExpression", callee |-> callee, arguments |-> arguments]
unaryExpression(operator, argument, prefix) ==
  [type |-> "UnaryExpression", operator |-> operator, argument |-> argument,
   prefix |-> prefix]
binaryExpression(operator, left, right) ==
  [type |-> "BinaryExpression", operator |-> operator, left |-> left, right |-> right]
conditionalExpression(test, consequent, alternate) ==
  [type |-> "ConditionalExpression", test |-> test, consequent |-> consequent,
   alternate |-> alternate]
ifStatement(test, consequent, alternate) ==
  [type |-> "IfStatement", test |-> test, consequent |-> consequent,
   alternate |-> alternate]
arrayExpression(elements) == [type |-> "ArrayExpression", elements |-> elements]
property(kind, key, value) == [kind |-> kind, key |-> key, value |-> value]
objectExpression(properties) ==
  [type |-> "ObjectExpression", properties |-> properties]
memberExpression(object, prop, computed) ==
  [type |-> "MemberExpression", object |-> object, property |-> prop,
   computed |-> computed]
returnStatement(argument) == [type |-> "ReturnStatement", argument |-> argument]
emptyStatement == [type |-> "EmptyStatement"]

\* JavaScript's null in a child position (a missing else branch).
NullNode == [type |-> "null"]
\* No tree at all: the value of output before cps ran and after it threw.
NoNode == [type |-> "none"]

returnContIdentifier == identifier("_return")

(***************************************************************************)
(* The transformer.  Every function returns a record                       *)
(*   [ok, node, n, err]                                                    *)
(* ok: it returned (node is the tree) rather than threw (err is the error);*)
(* n: the value of the gensym counter afterwards.                          *)
(***************************************************************************)

Ok(node, n) == [ok |-> TRUE, node |-> node, n |-> n, err |-> ""]
Throw(err, n) == [ok |-> FALSE, node |-> NoNode, n |-> n, err |-> err]

\* util.gensym(name) with the "_" prefix makeGensymVariable adds.
makeGensymVariable(name, n) ==
  [id |-> identifier("_" \o name \o ToString(n)), n |-> n + 1]

convertToStatement(node) ==
  IF node.type \in StatementTypes THEN node
  ELSE IF node.type \in ExpressionTypes THEN expressionStatement(node)
  ELSE [type |-> "Error: convertToStatement: can't handle node type"]

buildFunc(args, body) ==
  IF body.type = "BlockStatement"
  THEN functionExpression(args, body)
  ELSE functionExpression(args, blockStatement(<<convertToStatement(body)>>))

RECURSIVE cps(_, _, _)
RECURSIVE cpsAtomic(_, _)
RECURSIVE cpsSequence(_, _, _, _)
RECURSIVE cpsBlock(_, _, _)
RECURSIVE cpsObjectExpression(_, _, _, _)

cpsAtomic(node, n) ==
  CASE node.type = "FunctionExpression" ->
         LET newCont == makeGensymVariable("k", n)
             newParams == <<newCont.id>> \o node.params
             body == cps(node.body, newCont.id, newCont.n)
         IN  IF ~body.ok THEN body
             ELSE Ok(buildFunc(newParams,
                       blockStatement(<<
                         variableDeclaration(
                           <<variableDeclarator(returnContIdentifier, newCont.id)>>),
                         convertToStatement(body.node)>>)),
                     body.n)
    [] node.type \in {"Identifier", "Literal"} -> Ok(node, n)
    [] node.type = "EmptyStatement" -> Ok(identifier("undefined"), n)
    [] OTHER -> Throw("cpsAtomic: unknown expression type: " \o node.type, n)

\* The two closures cpsSequence takes, as data: seq.kind names the caller that
\* built them, the other fields are the variables they close over.
atFinalElement(seq, nodes) ==
  IF seq.kind = "block" THEN Len(nodes) = 1 ELSE Len(nodes) = 0

getFinalElement(seq, nodes, vars, n) ==
  CASE seq.kind = "block" -> cps(nodes[1], seq.cont, n)
    [] seq.kind = "primitive" ->
         Ok(callExpression(seq.cont, <<callExpression(seq.opNode, vars)>>), n)
    [] seq.kind = "compound" ->
         Ok(callExpression(vars[1], <<seq.cont>> \o Tail(vars)), n)
    [] seq.kind = "unary" ->
         Ok(callExpression(seq.cont,
              <<unaryExpression(seq.opNode, vars[1], seq.isPrefix)>>), n)
    [] seq.kind = "binary" ->
         Ok(callExpression(seq.cont,
              <<binaryExpression(seq.opNode, vars[1], vars[2])>>), n)
    [] seq.kind = "array" ->
         Ok(callExpression(seq.cont, <<arrayExpression(vars)>>), n)

cpsSequence(seq, nodes, vars, n) ==
  IF atFinalElement(seq, nodes)
  THEN getFinalElement(seq, nodes, vars, n)
  ELSE IF nodes = <<>>
  \* only a block gets here (length 0, final at length 1): nodes.slice(1) is
  \* empty again and the recursion never ends
  THEN Throw("RangeError: Maximum call stack size exceeded", n)
  ELSE LET nextVar == makeGensymVariable("s", n)
           rest == cpsSequence(seq, Tail(nodes), Append(vars, nextVar.id), nextVar.n)
       IN  IF ~rest.ok THEN rest
           ELSE cps(nodes[1], buildFunc(<<nextVar.id>>, rest.node), rest.n)

isFunctionDeclaration(node) ==
  /\ node.type = "VariableDeclaration"
  /\ node.declarations[1].init.type = "FunctionExpression"

cpsBlock(nodes, cont, n) ==
  IF Len(nodes) > 1 /\ isFunctionDeclaration(nodes[1])
  THEN LET node == nodes[1]
           declaration == node.declarations[1]
           fn == cpsAtomic(declaration.init, n)
           newFunctionDeclarationNode ==
             variableDeclaration(<<variableDeclarator(declaration.id, fn.node)>>)
           newRemainderNode == cpsBlock(Tail(nodes), cont, fn.n)
       IN  IF Len(node.declarations) # 1
           THEN Throw("AssertionError: declarations.length == 1", n)
           ELSE IF ~fn.ok THEN fn
           ELSE IF ~newRemainderNode.ok THEN newRemainderNode
           ELSE IF newRemainderNode.node.type = "BlockStatement"
           THEN Ok(blockStatement(<<newFunctionDeclarationNode>>
                                    \o newRemainderNode.node.body),
                   newRemainderNode.n)
           ELSE Ok(blockStatement(<<newFunctionDeclarationNode,
                                    convertToStatement(newRemainderNode.node)>>),
                   newRemainderNode.n)
  ELSE cpsSequence([kind |-> "block", cont |-> cont], nodes, <<>>, n)

cpsPrimitiveApplication(opNode, argNodes, cont, n) ==
  cpsSequence([kind |-> "primitive", opNode |-> opNode, cont |-> cont],
              argNodes, <<>>, n)

cpsCompoundApplication(opNode, argNodes, cont, n) ==
  cpsSequence([kind |-> "compound", cont |-> cont], <<opNode>> \o argNodes, <<>>, n)

cpsApplication(opNode, argNodes, cont, n) ==
  IF opNode.type = "MemberExpression"
  THEN cpsPrimitiveApplication(opNode, argNodes, cont, n)
  ELSE cpsCompoundApplication(opNode, argNodes, cont, n)

cpsUnaryExpression(opNode, argNode, isPrefix, cont, n) ==
  cpsSequence([kind |-> "unary", opNode |-> opNode, isPrefix |-> isPrefix,
               cont |-> cont],
              <<argNode>>, <<>>, n)

cpsBinaryExpression(opNode, leftNode, rightNode, cont, n) ==
  cpsSequence([kind |-> "binary", opNode |-> opNode, cont |-> cont],
              <<leftNode, rightNode>>, <<>>, n)

cpsConditional(test, consequent, alternate, cont, n) ==
  LET contName == makeGensymVariable("cont", n)
      testName == makeGensymVariable("test", contName.n)
      c == cps(consequent, contName.id, testName.n)
      a == cps(alternate, contName.id, c.n)
      t == cps(test,
               buildFunc(<<testName.id>>,
                         conditionalExpression(testName.id, c.node, a.node)),
               a.n)
  IN  IF ~c.ok THEN c
      ELSE IF ~a.ok THEN a
      ELSE IF ~t.ok THEN t
      ELSE Ok(callExpression(buildFunc(<<contName.id>>, t.node), <<cont>>), t.n)

cpsIfAlternate(alternate, cont, contName, n) ==
  IF alternate = NullNode
  THEN Ok(callExpression(cont, <<identifier("undefined")>>), n)
  ELSE cps(alternate, contName, n)

cpsIf(test, consequent, alternate, cont, n) ==
  LET contName == makeGensymVariable("cont", n)
      testName == makeGensymVariable("test", contName.n)
      consequentNode == cps(consequent, contName.id, testName.n)
      alternateNode == cpsIfAlternate(alternate, cont, contName.id, consequentNode.n)
      t == cps(test,
               buildFunc(<<testName.id>>,
                         ifStatement(testName.id,
                                     convertToStatement(consequentNode.node),
                                     convertToStatement(alternateNode.node))),
               alternateNode.n)
  IN  IF ~consequentNode.ok THEN consequentNode
      ELSE IF ~alternateNode.ok THEN alternateNode
      ELSE IF ~t.ok THEN t
      ELSE Ok(callExpression(buildFunc(<<contName.id>>, t.node), <<cont>>), t.n)

cpsArrayExpression(elements, cont, n) ==
  cpsSequence([kind |-> "array", cont |-> cont], elements, <<>>, n)

cpsObjectExpression(properties, cont, props, n) ==
  IF Len(properties) = 0
  THEN Ok(callExpression(cont, <<objectExpression(props)>>), n)
  ELSE LET nextVal == makeGensymVariable("ob", n)
           nextProp == property(properties[1].kind, properties[1].key, nextVal.id)
           rest == cpsObjectExpression(Tail(properties), cont,
                                       Append(props, nextProp), nextVal.n)
       IN  IF ~rest.ok THEN rest
           ELSE cps(properties[1].value, buildFunc(<<nextVal.id>>, rest.node), rest.n)

cpsMemberExpression(obj, prop, computed, cont, n) ==
  IF computed
  THEN LET objName == makeGensymVariable("obj", n)
           propName == makeGensymVariable("prop", objName.n)
           memberExpr == memberExpression(objName.id, propName.id, computed)
           p == cps(prop,
                    buildFunc(<<propName.id>>, callExpression(cont, <<memberExpr>>)),
                    propName.n)
       IN  IF ~p.ok THEN p
           ELSE cps(obj, buildFunc(<<objName.id>>, p.node), p.n)
  ELSE LET objName == makeGensymVariable("obj", n)
           memberExpr == memberExpression(objName.id, prop, FALSE)
       IN  cps(obj,
               buildFunc(<<objName.id>>, callExpression(cont, <<memberExpr>>)),
               objName.n)

cpsVariableDeclaration(declarationId, declarationInit, cont, n) ==
  IF declarationInit.type = "FunctionExpression"
  THEN LET fn == cpsAtomic(declarationInit, n)
       IN  IF ~fn.ok THEN fn
           ELSE Ok(blockStatement(<<
                     variableDeclaration(<<variableDeclarator(declarationId, fn.node)>>),
                     convertToStatement(
                       callExpression(cont, <<identifier("undefined")>>))>>),
                   fn.n)
  ELSE cps(declarationInit,
           buildFunc(<<declarationId>>,
                     callExpression(cont, <<identifier("undefined")>>)),
           n)

\* (a transformer that hands the returned value to the local continuation)
cpsReturnStatementToLocalCont(node, cont, n) == cps(node.argument, cont, n)

cpsReturnStatement(node, cont, n) == cps(node.argument, returnContIdentifier, n)

cpsProgram(node, cont, n) ==
  LET b == cpsBlock(node.body, cont, n)
  IN  IF ~b.ok THEN b ELSE Ok(program(<<convertToStatement(b.node)>>), b.n)

cpsAtomicCall(node, cont, n) ==
  LET a == cpsAtomic(node, n)
  IN  IF ~a.ok THEN a ELSE Ok(callExpression(cont, <<a.node>>), a.n)

cps(node, cont, n) ==
  CASE node.type = "BlockStatement" -> cpsBlock(node.body, cont, n)
    [] node.type = "Program" -> cpsProgram(node, cont, n)
    [] node.type = "ReturnStatement" -> cpsReturnStatement(node, cont, n)
    [] node.type = "ExpressionStatement" -> cps(node.expression, cont, n)
    [] node.type \in {"EmptyStatement", "Identifier", "Literal", "FunctionExpression"} ->
         cpsAtomicCall(node, cont, n)
    [] node.type = "VariableDeclaration" ->
         IF Len(node.declarations) # 1
         THEN Throw("AssertionError: declarations.length == 1", n)
         ELSE cpsVariableDeclaration(node.declarations[1].id,
                                     node.declarations[1].init, cont, n)
    [] node.type = "CallExpression" ->
         cpsApplication(node.callee, node.arguments, cont, n)
    [] node.type = "IfStatement" ->
         cpsIf(node.test, node.consequent, node.alternate, cont, n)
    [] node.type = "ConditionalExpression" ->
         cpsConditional(node.test, node.consequent, node.alternate, cont, n)
    [] node.type = "ArrayExpression" -> cpsArrayExpression(node.elements, cont, n)
    [] node.type = "ObjectExpression" ->
         cpsObjectExpression(node.properties, cont, <<>>, n)
    [] node.type = "MemberExpression" ->
         cpsMemberExpression(node.object, node.property, node.computed, cont, n)
    [] node.type = "UnaryExpression" ->
         cpsUnaryExpression(node.operator, node.argument, node.prefix, cont, n)
    [] node.type = "BinaryExpression" ->
         cpsBinaryExpression(node.operator, node.left, node.right, cont, n)
    [] OTHER -> Throw("cps: unknown node type: " \o node.type, n)

(***************************************************************************)
(* The evaluator: JavaScript's semantics for the trees above, used for the *)
(* source (direct style) and for the compiled tree alike.  Values are      *)
(* tagged records.  The evaluator's state st records the observable        *)
(* effects: log (calls of the methods of the global object T), done (the   *)
(* calls of the top-level continuation), err (an uncaught error), and the  *)
(* pending return of the function being run.  Variables are bound before   *)
(* they are read in every program run here, so an environment threaded    *)
(* through the statements of a function stands for its var scope.          *)
(***************************************************************************)

Num(n) == [t |-> "num", n |-> n]
Bool(b) == [t |-> "bool", b |-> b]
Undef == [t |-> "undefined"]
NaN == [t |-> "NaN"]
Closure(params, body, env) ==
  [t |-> "function", params |-> params, body |-> body, env |-> env]
Builtin(name) == [t |-> "builtin", name |-> name]
ObjT == [t |-> "T"]
Arr(elems) == [t |-> "array", elems |-> elems]
Rec(props) == [t |-> "object", props |-> props]

\* The methods of T: each logs its call; a, b, c return 1, 2, 3, g returns T
\* itself, f returns its first argument.
TMethods == {"a", "b", "c", "f", "g"}

EmptyEnv == [x \in {} |-> Undef]
GlobalEnv == [x \in {"T", "done", "undefined"} |->
                CASE x = "T" -> ObjT
                  [] x = "done" -> Builtin("done")
                  [] OTHER -> Undef]

InitSt == [log |-> <<>>, done |-> <<>>, err |-> "", ret |-> FALSE, retval |-> Undef,
           returns |-> 0, fellThrough |-> 0]
NotRun == [log |-> <<>>, done |-> <<>>, err |-> "not run", val |-> Undef,
           returns |-> 0, fellThrough |-> 0]

Fail(st, msg) == [st EXCEPT !.err = msg]

Truthy(v) ==
  CASE v.t = "bool" -> v.b
    [] v.t = "num" -> v.n # 0
    [] v.t \in {"undefined", "NaN"} -> FALSE
    [] OTHER -> TRUE

BinaryOp(op, l, r) ==
  IF l.t = "num" /\ r.t = "num"
  THEN CASE op = "+" -> Num(l.n + r.n)
         [] op = "-" -> Num(l.n - r.n)
         [] op = "<" -> Bool(l.n < r.n)
         [] OTHER -> NaN
  ELSE NaN

UnaryOp(op, v) ==
  CASE op = "!" -> Bool(~Truthy(v))
    [] op = "-" /\ v.t = "num" -> Num(0 - v.n)
    [] OTHER -> NaN

PropertyKey(v) ==
  CASE v.t = "num" -> ToString(v.n)
    [] OTHER -> v.t

GetMember(o, key) ==
  CASE o.t = "T" -> IF key \in TMethods THEN Builtin(key) ELSE Undef
    [] o.t = "object" -> IF key \in DOMAIN o.props THEN o.props[key] ELSE Undef
    [] o.t = "array" ->
         IF \E i \in 1..Len(o.elems) : ToString(i - 1) = key
         THEN o.elems[CHOOSE i \in 1..Len(o.elems) : ToString(i - 1) = key]
         ELSE Undef
    [] OTHER -> Undef

BindParams(params, args, env) ==
  [x \in DOMAIN env \cup {params[i].name : i \in 1..Len(params)} |->
     IF \E i \in 1..Len(params) : params[i].name = x
     THEN LET i == CHOOSE j \in 1..Len(params) :
                     /\ params[j].name = x
                     /\ \A m \in (j + 1)..Len(params) : params[m].name # x
          IN  IF i <= Len(args) THEN args[i] ELSE Undef
     ELSE env[x]]

Bind(env, name, v) ==
  [x \in DOMAIN env \cup {name} |-> IF x = name THEN v ELSE env[x]]

RECURSIVE EvalExpr(_, _, _)
RECURSIVE EvalList(_, _, _)
RECURSIVE EvalProps(_, _, _)
RECURSIVE ExecStmt(_, _, _)
RECURSIVE ExecBlock(_, _, _)
RECURSIVE ExecDecls(_, _, _)
RECURSIVE Apply(_, _, _)

\* A call: a builtin acts on st; a function runs its body in its own environment.
Apply(f, args, st) ==
  IF st.err # "" THEN [v |-> Undef, st |-> st]
  ELSE CASE f.t = "builtin" /\ f.name = "done" ->
              [v |-> Undef,
               st |-> [st EXCEPT !.done =
                         Append(@, IF Len(args) > 0 THEN args[1] ELSE Undef)]]
         [] f.t = "builtin" /\ f.name # "done" ->
              [v |-> CASE f.name = "a" -> Num(1)
                       [] f.name = "b" -> Num(2)
                       [] f.name = "c" -> Num(3)
                       [] f.name = "g" -> ObjT
                       [] OTHER -> IF Len(args) > 0 THEN args[1] ELSE Undef,
               st |-> [st EXCEPT !.log = Append(@, [fn |-> f.name, args |-> args])]]
         [] f.t = "function" /\ \E i \in 1..Len(f.params) : f.params[i].type # "Identifier" ->
              [v |-> Undef, st |-> Fail(st, "SyntaxError: parameter")]
         [] f.t = "function" /\ \A i \in 1..Len(f.params) : f.params[i].type = "Identifier" ->
              LET r == ExecBlock(f.body.body, BindParams(f.params, args, f.env), st)
              IN  IF r.st.err # "" THEN [v |-> Undef, st |-> r.st]
                  ELSE [v |-> IF r.st.ret THEN r.st.retval ELSE Undef,
                        st |-> [r.st EXCEPT !.ret = FALSE, !.retval = Undef,
                                  !.fellThrough = IF r.st.ret THEN @ ELSE @ + 1]]
         [] OTHER -> [v |-> Undef, st |-> Fail(st, "TypeError: not a function")]

EvalList(es, env, st) ==
  IF es = <<>> THEN [vs |-> <<>>, st |-> st]
  ELSE LET h == EvalExpr(es[1], env, st)
           t == EvalList(Tail(es), env, h.st)
       IN  [vs |-> <<h.v>> \o t.vs, st |-> t.st]

EvalProps(ps, env, st) ==
  IF ps = <<>> THEN [props |-> EmptyEnv, st |-> st]
  ELSE LET h == EvalExpr(ps[1].value, env, st)
           t == EvalProps(Tail(ps), env, h.st)
           key == CASE ps[1].key.type = "Identifier" -> ps[1].key.name
                    [] ps[1].key.type = "Literal" -> PropertyKey(ps[1].key.value)
                    [] OTHER -> ""
       IN  IF ps[1].key.type \notin {"Identifier", "Literal"}
           THEN [props |-> EmptyEnv, st |-> Fail(st, "SyntaxError: property key")]
           ELSE [props |-> [x \in DOMAIN t.props \cup {key} |->
                              IF x \in DOMAIN t.props THEN t.props[x] ELSE h.v],
                 st |-> t.st]

EvalMember(e, env, st) ==
  LET o == EvalExpr(e.object, env, st)
      p == IF e.computed THEN EvalExpr(e.property, env, o.st)
           ELSE [v |-> Undef, st |-> o.st]
      key == IF e.computed THEN PropertyKey(p.v) ELSE e.property.name
  IN  IF p.st.err # "" THEN [v |-> Undef, this |-> Undef, st |-> p.st]
      ELSE IF o.v.t = "undefined"
      THEN [v |-> Undef, this |-> Undef,
            st |-> Fail(p.st, "TypeError: cannot read property of undefined")]
      ELSE [v |-> GetMember(o.v, key), this |-> o.v, st |-> p.st]

EvalExpr(e, env, st) ==
  IF st.err # "" THEN [v |-> Undef, st |-> st]
  ELSE CASE e.type = "Literal" -> [v |-> e.value, st |-> st]
         [] e.type = "Identifier" ->
              IF e.name \in DOMAIN env THEN [v |-> env[e.name], st |-> st]
              ELSE [v |-> Undef,
                    st |-> Fail(st, "ReferenceError: " \o e.name \o " is not defined")]
         [] e.type = "FunctionExpression" ->
              [v |-> Closure(e.params, e.body, env), st |-> st]
         [] e.type = "CallExpression" ->
              LET f == IF e.callee.type = "MemberExpression"
                       THEN EvalMember(e.callee, env, st)
                       ELSE EvalExpr(e.callee, env, st)
                  args == EvalList(e.arguments, env, f.st)
              IN  Apply(f.v, args.vs, args.st)
         [] e.type = "MemberExpression" ->
              LET m == EvalMember(e, env, st) IN [v |-> m.v, st |-> m.st]
         [] e.type = "UnaryExpression" ->
              LET a == EvalExpr(e.argument, env, st)
              IN  [v |-> UnaryOp(e.operator, a.v), st |-> a.st]
         [] e.type = "BinaryExpression" ->
              LET l == EvalExpr(e.left, env, st)
                  r == EvalExpr(e.right, env, l.st)
              IN  [v |-> BinaryOp(e.operator, l.v, r.v), st |-> r.st]
         [] e.type = "ConditionalExpression" ->
              LET t == EvalExpr(e.test, env, st)
              IN  IF t.st.err # "" THEN t
                  ELSE IF Truthy(t.v) THEN EvalExpr(e.consequent, env, t.st)
                  ELSE EvalExpr(e.alternate, env, t.st)
         [] e.type = "ArrayExpression" ->
              LET r == EvalList(e.elements, env, st)
              IN  [v |-> Arr(r.vs), st |-> r.st]
         [] e.type = "ObjectExpression" ->
              LET r == EvalProps(e.properties, env, st)
              IN  [v |-> Rec(r.props), st |-> r.st]
         [] e.type = "ThisExpression" -> [v |-> Undef, st |-> st]
         [] OTHER -> [v |-> Undef, st |-> Fail(st, "SyntaxError: " \o e.type)]

ExecDecls(ds, env, st) ==
  IF ds = <<>> THEN [env |-> env, st |-> st, v |-> Undef]
  ELSE LET i == EvalExpr(ds[1].init, env, st)
       IN  IF i.st.err # "" THEN [env |-> env, st |-> i.st, v |-> Undef]
           ELSE ExecDecls(Tail(ds), Bind(env, ds[1].id.name, i.v), i.st)

\* A statement: the environment after it, the state, and its completion value.
ExecStmt(s, env, st) ==
  IF st.err # "" \/ st.ret THEN [env |-> env, st |-> st, v |-> Undef]
  ELSE CASE s.type = "ExpressionStatement" ->
              LET r == EvalExpr(s.expression, env, st)
              IN  [env |-> env, st |-> r.st, v |-> r.v]
         [] s.type = "VariableDeclaration" -> ExecDecls(s.declarations, env, st)
         [] s.type = "IfStatement" ->
              LET t == EvalExpr(s.test, env, st)
              IN  IF t.st.err # "" THEN [env |-> env, st |-> t.st, v |-> Undef]
                  ELSE IF Truthy(t.v) THEN ExecStmt(s.consequent, env, t.st)
                  ELSE IF s.alternate = NullNode
                  THEN [env |-> env, st |-> t.st, v |-> Undef]
                  ELSE ExecStmt(s.alternate, env, t.st)
         [] s.type = "ReturnStatement" ->
              LET r == EvalExpr(s.argument, env, st)
              IN  IF r.st.err # "" THEN [env |-> env, st |-> r.st, v |-> Undef]
                  ELSE [env |-> env,
                        st |-> [r.st EXCEPT !.ret = TRUE, !.retval = r.v,
                                  !.returns = @ + 1],
                        v |-> Undef]
         [] s.type \in {"BlockStatement", "Program"} -> ExecBlock(s.body, env, st)
         [] s.type = "EmptyStatement" -> [env |-> env, st |-> st, v |-> Undef]
         [] OTHER -> [env |-> env, st |-> Fail(st, "SyntaxError: " \o s.type),
                      v |-> Undef]

ExecBlock(ss, env, st) ==
  IF ss = <<>> THEN [env |-> env, st |-> st, v |-> Undef]
  ELSE LET h == ExecStmt(ss[1], env, st)
       IN  IF Len(ss) = 1 \/ h.st.err # "" \/ h.st.ret THEN h
           ELSE ExecBlock(Tail(ss), h.env, h.st)

\* Running a whole program: the final state, with the value of the program's
\* last statement in val.
RunProgram(tree) ==
  LET r == ExecStmt(tree, GlobalEnv, InitSt)
  IN  [log |-> r.st.log, done |-> r.st.done, err |-> r.st.err, val |-> r.v,
       returns |-> r.st.returns, fellThrough |-> r.st.fellThrough]

(***************************************************************************)
(* The source programs handed to cps.                                      *)
(***************************************************************************)

\* Largest number literal of the generated programs.
MaxLit == 4
\* Largest value util.gensym's counter may have when a compilation starts.
MaxGensymStart == 1

num(i) == literal(Num(i))
true == literal(Bool(TRUE))
false == literal(Bool(FALSE))
id(x) == identifier(x)
stmt(e) == expressionStatement(e)
var(x, init) == variableDeclaration(<<variableDeclarator(identifier(x), init)>>)
fn(params, stmts) == functionExpression(params, blockStatement(stmts))
call(f, args) == callExpression(f, args)
\* T.m(args): a call of a method of the global object T
tcall(m, args) == callExpression(memberExpression(id("T"), id(m), FALSE), args)
block(stmts) == blockStatement(stmts)
ret(e) == returnStatement(e)

Lits == {num(i) : i \in 0..MaxLit}
Bools == {true, false}
Effects == {tcall("a", <<>>), tcall("b", <<>>)}

\* Programs without calls of T's methods: expressions ...
PureExprInputs ==
  {program(<<stmt(binaryExpression(op, l, r))>>) :
     op \in {"+", "<"}, l \in Lits, r \in {num(MaxLit), num(1)}}
  \cup {program(<<stmt(unaryExpression("-", l, TRUE))>>) : l \in Lits}
  \cup {program(<<stmt(conditionalExpression(c, num(1), num(2)))>>) : c \in Bools}
  \cup {program(<<stmt(l)>>) : l \in Lits}

\* ... statements, and functions whose body ends with or without a return.
PureStmtInputs ==
  {program(<<ifStatement(c, block(<<stmt(num(1))>>), e)>>) :
     c \in Bools, e \in {NullNode, block(<<stmt(num(2))>>)}}
  \cup {program(<<var("x", l), stmt(binaryExpression("+", id("x"), num(1)))>>) :
          l \in Lits}
  \cup {program(<<var("f", fn(<<id("x")>>, <<last>>)), stmt(call(id("f"), <<a>>))>>) :
          last \in {ret(binaryExpression("+", id("x"), num(1))),
                    stmt(binaryExpression("+", id("x"), num(1)))},
          a \in {num(MaxLit), num(0)}}
  \cup {program(<<stmt(call(fn(<<>>, <<last>>), <<>>))>>) :
          last \in {ret(num(3)), stmt(num(3))}}

PureInputs == PureExprInputs \cup PureStmtInputs

\* Multi-operand constructs whose operands have effects (calls of T.a, T.b).
EffectConstructs(x, y) ==
  { binaryExpression("+", x, y),
    arrayExpression(<<x, y>>),
    objectExpression(<<property("init", id("p"), x), property("init", id("q"), y)>>),
    memberExpression(arrayExpression(<<x, num(7)>>), binaryExpression("-", y, y), TRUE),
    tcall("f", <<x, y>>),
    call(fn(<<id("u"), id("v")>>, <<ret(binaryExpression("-", id("u"), id("v")))>>),
         <<x, y>>),
    \* a primitive application whose callee's object is itself a call
    callExpression(memberExpression(tcall("g", <<>>), id("f"), FALSE), <<x, y>>),
    callExpression(memberExpression(tcall("g", <<x>>), id("f"), FALSE), <<y>>) }

EffectInputs ==
  {program(<<stmt(e)>>) :
     e \in UNION {EffectConstructs(x, y) : x \in Effects \cup {num(MaxLit)}, y \in Effects}}

\* Functions with return statements under if statements, conditionals and
\* blocks, followed by statements with effects, called at the top level.
ReturnHeads ==
  { ifStatement(c, block(<<ret(num(1))>>), block(<<ret(num(2))>>)) : c \in Bools }
  \cup { ifStatement(c, block(<<ret(num(1))>>), NullNode) : c \in Bools }
  \cup { ifStatement(c,
           block(<<ifStatement(d, block(<<stmt(tcall("a", <<>>)), ret(num(1))>>),
                               block(<<ret(num(2)), stmt(tcall("b", <<>>))>>))>>),
           block(<<ret(conditionalExpression(d, num(3), num(MaxLit)))>>)) :
           c \in Bools, d \in Bools }
  \cup { block(<<stmt(tcall("a", <<>>)), ret(num(5)), stmt(tcall("b", <<>>))>>),
         stmt(tcall("a", <<>>)) }
  \* an inner function with its own return, called before the outer returns
  \cup { var("y", call(fn(<<>>, <<ifStatement(c, block(<<ret(num(1))>>),
                                              block(<<ret(num(2))>>))>>), <<>>)) :
           c \in Bools }

ReturnTails ==
  { <<stmt(tcall("c", <<>>)), ret(num(6))>>,
    <<ret(num(6))>>,
    <<ret(tcall("c", <<>>)), stmt(tcall("b", <<>>))>> }

ReturnInputs ==
  {program(<<stmt(call(fn(<<>>, <<h>> \o t), <<>>))>>) :
     h \in ReturnHeads, t \in ReturnTails}
  \cup {program(<<var("f", fn(<<>>, <<h>> \o t)),
                  stmt(binaryExpression("+", call(id("f"), <<>>), num(10)))>>) :
          h \in ReturnHeads, t \in ReturnTails}

\* Trees with a node of a kind cps does not support (this, an assignment), or
\* with two declarators in one declaration, at each position of a tree.
thisExpression == [type |-> "ThisExpression"]
assignment == [type |-> "AssignmentExpression", operator |-> "=",
               left |-> id("x"), right |-> num(1)]
Unsupported == {thisExpression, assignment}
SupportedTypes == {"Program", "BlockStatement", "IfStatement", "ConditionalExpression",
                   "VariableDeclaration", "Identifier", "Literal", "FunctionExpression",
                   "CallExpression", "ArrayExpression", "ObjectExpression",
                   "MemberExpression", "UnaryExpression", "BinaryExpression",
                   "ReturnStatement", "ExpressionStatement", "EmptyStatement"}

RejectPositions(u) ==
  { stmt(u),
    stmt(binaryExpression("+", num(1), u)),
    stmt(binaryExpression("+", u, num(1))),
    stmt(unaryExpression("-", u, TRUE)),
    stmt(tcall("f", <<num(1), u>>)),
    stmt(call(u, <<num(1)>>)),
    stmt(arrayExpression(<<u>>)),
    stmt(objectExpression(<<property("init", id("p"), u)>>)),
    stmt(memberExpression(u, id("p"), FALSE)),
    stmt(memberExpression(id("T"), u, TRUE)),
    stmt(conditionalExpression(u, num(1), num(2))),
    stmt(conditionalExpression(true, num(1), u)),
    ifStatement(true, block(<<stmt(num(1))>>), block(<<stmt(u)>>)),
    ifStatement(u, block(<<stmt(num(1))>>), NullNode),
    var("x", u),
    stmt(call(fn(<<>>, <<ret(u)>>), <<>>)),
    stmt(call(fn(<<>>, <<ret(num(1)), stmt(u)>>), <<>>)),
    \* positions cps copies without looking into them
    stmt(callExpression(memberExpression(u, id("f"), FALSE), <<num(1)>>)),
    stmt(objectExpression(<<property("init", u, num(1))>>)),
    stmt(call(fn(<<u>>, <<ret(num(1))>>), <<num(2)>>)) }

RejectInputs ==
  {program(<<s>>) : s \in UNION {RejectPositions(u) : u \in Unsupported}}
  \cup {program(<<s, stmt(num(1))>>) :
          s \in UNION {RejectPositions(u) : u \in Unsupported}}
  \cup {program(<<variableDeclaration(<<variableDeclarator(id("x"), num(1)),
                                        variableDeclarator(id("y"), num(2))>>)>>),
        program(<<variableDeclaration(<<variableDeclarator(id("x"), fn(<<>>, <<ret(num(1))>>)),
                                        variableDeclarator(id("y"), num(2))>>),
                  stmt(num(1))>>)}

\* If statements and conditional expressions, alone and before another statement.
Branches == {stmt(num(1)), stmt(tcall("a", <<>>))}
IfForms ==
  {ifStatement(c, block(<<s>>), e) :
     c \in Bools, s \in Branches, e \in {NullNode, block(<<stmt(tcall("b", <<>>))>>)}}
  \cup {stmt(conditionalExpression(c, num(1), tcall("a", <<>>))) : c \in Bools}

IfInputs ==
  {program(<<i>>) : i \in IfForms}
  \cup {program(<<i, stmt(tcall("c", <<>>))>>) : i \in IfForms}

Inputs == PureInputs \cup EffectInputs \cup ReturnInputs \cup RejectInputs \cup IfInputs

(***************************************************************************)
(* The CPS machine: a source tree is compiled with the continuation done,  *)
(* the compiled tree is run, and the source is run directly.               *)
(***************************************************************************)

KernelIdle ==
  /\ kpc = "idle"
  /\ request = [kind |-> "none"]
  /\ kernelFn = [t |-> "none"]
  /\ control = [op |-> "none"]
  /\ calls = <<>>
  /\ kcalls = <<>>
  /\ steps = 0

InitCps ==
  /\ pc = "source"
  /\ input \in Inputs
  /\ output = NoNode
  /\ thrown = ""
  /\ gensymCounter \in 0..MaxGensymStart
  /\ cpsRun = NotRun
  /\ directRun = NotRun
  /\ KernelIdle

\* cps(input, done): the tree is returned, or an error is thrown
Compile ==
  /\ pc = "source"
  /\ LET r == cps(input, identifier("done"), gensymCounter)
     IN  /\ pc' = IF r.ok THEN "compiled" ELSE "failed"
         /\ output' = r.node
         /\ thrown' = r.err
         /\ gensymCounter' = r.n
  /\ UNCHANGED <<input, cpsRun, directRun>>
  /\ UNCHANGED kernelVars

\* eval of the compiled program
RunCompiled ==
  /\ pc = "compiled"
  /\ cpsRun' = RunProgram(output)
  /\ pc' = "ran"
  /\ UNCHANGED <<input, output, thrown, gensymCounter, directRun>>
  /\ UNCHANGED kernelVars

\* eval of the source program
RunDirect ==
  /\ pc # "idle"
  /\ directRun = NotRun
  /\ directRun' = RunProgram(input)
  /\ UNCHANGED <<pc, input, output, thrown, gensymCounter, cpsRun>>
  /\ UNCHANGED kernelVars

NextCps == Compile \/ RunCompiled \/ RunDirect

SpecCps == InitCps /\ [][NextCps]_allVars

(***************************************************************************)
(* Properties of the transformer.                                          *)
(***************************************************************************)

RECURSIVE DeclaratorNodes(_)
DeclaratorNodes(ds) ==
  IF ds = <<>> THEN <<>> ELSE <<ds[1].id, ds[1].init>> \o DeclaratorNodes(Tail(ds))

RECURSIVE PropertyNodes(_)
PropertyNodes(ps) ==
  IF ps = <<>> THEN <<>> ELSE <<ps[1].key, ps[1].value>> \o PropertyNodes(Tail(ps))

\* The nodes directly below a node, at every position.
Children(node) ==
  CASE node.type \in {"Program", "BlockStatement"} -> node.body
    [] node.type = "ExpressionStatement" -> <<node.expression>>
    [] node.type = "ReturnStatement" -> <<node.argument>>
    [] node.type = "VariableDeclaration" -> DeclaratorNodes(node.declarations)
    [] node.type = "FunctionExpression" -> node.params \o <<node.body>>
    [] node.type = "CallExpression" -> <<node.callee>> \o node.arguments
    [] node.type = "IfStatement" ->
         <<node.test, node.consequent>>
           \o (IF node.alternate = NullNode THEN <<>> ELSE <<node.alternate>>)
    [] node.type = "ConditionalExpression" ->
         <<node.test, node.consequent, node.alternate>>
    [] node.type = "ArrayExpression" -> node.elements
    [] node.type = "ObjectExpression" -> PropertyNodes(node.properties)
    [] node.type = "MemberExpression" -> <<node.object, node.property>>
    [] node.type = "UnaryExpression" -> <<node.argument>>
    [] node.type \in {"BinaryExpression", "AssignmentExpression"} ->
         <<node.left, node.right>>
    [] OTHER -> <<>>

RECURSIVE HasUnsupported(_)
HasUnsupported(node) ==
  \/ node.type \notin SupportedTypes
  \/ node.type = "VariableDeclaration" /\ Len(node.declarations) > 1
  \/ \E i \in 1..Len(Children(node)) : HasUnsupported(Children(node)[i])

RECURSIVE SumOver(_, _)
RECURSIVE Occurrences(_, _)
SumOver(c, nodes) ==
  IF nodes = <<>> THEN 0 ELSE Occurrences(c, nodes[1]) + SumOver(c, Tail(nodes))
\* How many times the tree c occurs in a tree.
Occurrences(c, node) ==
  IF node = c THEN 1 ELSE SumOver(c, Children(node))

Compiled == pc \in {"compiled", "ran"}
BothRan == pc = "ran" /\ directRun # NotRun

\* C1 (as claimed): for a program without probabilistic constructs, the compiled
\* program invokes done exactly once, with the value direct-style evaluation yields.
C1_DoneOnceWithDirectValue ==
  (BothRan /\ input \in PureInputs /\ directRun.err = "")
    => (cpsRun.err = "" /\ cpsRun.done = <<directRun.val>>)

\* C2 (as claimed): the operands of every multi-operand construct are evaluated
\* once each and in the order of direct-style evaluation, for compound and for
\* primitive applications: the compiled program makes the same calls of T's
\* methods, with the same arguments, in the same order, as the source.
C2_SameEvaluationOrder ==
  (BothRan /\ input \in EffectInputs /\ directRun.err = "")
    => (cpsRun.err = "" /\ cpsRun.log = directRun.log)

\* C3: a return statement at any depth delivers its value to the continuation of
\* the innermost enclosing function, and the statements after it do not run:
\* whenever every function the source calls ends by a return statement, the
\* compiled program performs the same effects and invokes done once, with the
\* value the source yields.
C3_ReturnReachesFunctionContinuation ==
  (BothRan /\ directRun.err = "" /\ directRun.returns > 0 /\ directRun.fellThrough = 0)
    => (cpsRun.err = "" /\ cpsRun.done = <<directRun.val>>
        /\ cpsRun.log = directRun.log)

\* C3's case: an inner and an outer function each returned from under an if
\* statement, with effects skipped or performed around the returns.
C3_Witness ==
  /\ BothRan
  /\ directRun.err = ""
  /\ directRun.returns >= 2
  /\ directRun.fellThrough = 0
  /\ directRun.log # <<>>
  /\ cpsRun.done = <<directRun.val>>
  /\ Occurrences(returnContIdentifier, output) >= 4

\* C9 (as claimed): a tree with an unsupported node, or a declaration with several
\* declarators, at any position makes cps throw and return no tree.
C9_UnsupportedNodeThrows ==
  (pc # "source" /\ HasUnsupported(input))
    => (pc = "failed" /\ thrown # "" /\ output = NoNode)

\* C10 (as claimed): in the tree compiled for an if statement or a conditional
\* expression the continuation occurs exactly once; every branch, a missing else
\* included, calls the name bound to it.
C10_ContinuationOccursOnce ==
  (Compiled /\ input \in IfInputs)
    => Occurrences(identifier("done"), output) = 1

(***************************************************************************)
(* The kernel framework.  Option values are tagged records; an options     *)
(* object is OMap of a function from its keys to their values.  A function *)
(* value (a kernel, a continuation) is a record naming the function and    *)
(* holding the variables it closes over.  A trace is the sequence of the   *)
(* leaf kernels that have been applied to it, so its length is a counter   *)
(* every leaf kernel increments.                                           *)
(***************************************************************************)

\* Bound on the function invocations of one run (a run that recurses without
\* end is cut here).
MaxSteps == 40
\* Largest n of a repeat(n, kernel) request.
MaxRepeat == 3
\* Largest number of arguments of a sequence(...) request.
MaxSeqLen == 3

OUndef == [t |-> "undefined"]
ONum(n) == [t |-> "num", n |-> n]
OBool(b) == [t |-> "bool", b |-> b]
OStr(s) == [t |-> "str", s |-> s]
OArr(elems) == [t |-> "array", elems |-> elems]
OMap(props) == [t |-> "object", props |-> props]
NoProps == [x \in {} |-> OUndef]
EmptyObj == OMap(NoProps)

\* _.keys(v) and v[key] for the own enumerable keys of a value: an object's keys,
\* an array's indices, none for a function or a scalar.
OwnKeys(v) ==
  CASE v.t = "object" -> DOMAIN v.props
    [] v.t = "array" -> {ToString(i - 1) : i \in 1..Len(v.elems)}
    [] OTHER -> {}

OwnGet(v, key) ==
  CASE v.t = "object" -> v.props[key]
    [] v.t = "array" -> v.elems[CHOOSE i \in 1..Len(v.elems) : ToString(i - 1) = key]

\* _.extendOwn(destination, source): the destination after the copy
extendOwn2(destination, source) ==
  OMap([x \in DOMAIN destination.props \cup OwnKeys(source) |->
          IF x \in OwnKeys(source) THEN OwnGet(source, x) ELSE destination.props[x]])

\* _.extendOwn(destination, source1, source2)
extendOwn3(destination, source1, source2) ==
  extendOwn2(extendOwn2(destination, source1), source2)

MHKernel == [t |-> "MHKernel"]
HMCKernel == [t |-> "HMCKernel"]
HMCwithMHKernel == [t |-> "HMCwithMHKernel"]
sequenceKernel == [t |-> "sequenceKernel"]

KernelNames == {"MH", "HMC", "HMConly", "sequence"}
kernels == [name \in KernelNames |->
              CASE name = "MH" -> MHKernel
                [] name = "HMC" -> HMCwithMHKernel
                [] name = "HMConly" -> HMCKernel
                [] name = "sequence" -> sequenceKernel]

LeafTypes == {"MHKernel", "HMCKernel"}
FunctionTypes == {"MHKernel", "HMCKernel", "HMCwithMHKernel", "sequenceKernel",
                  "kernelClosure", "sequence2", "repeat"}

\* The invocation fn(cont, trace, options), or the TypeError of calling a value
\* that is no function.
Call(f, cont, trace, options) ==
  IF f.t \in FunctionTypes
  THEN [op |-> "call", fn |-> f, cont |-> cont, trace |-> trace, options |-> options]
  ELSE [op |-> "throw", err |-> "TypeError: not a function"]

\* The invocation cont(trace).
Resume(cont, trace) == [op |-> "resume", fn |-> cont, trace |-> trace]

\* iter of sequenceKernel
iter(cont, trace, ks, options) ==
  IF ks.t # "array" \/ Len(ks.elems) = 0
  THEN [op |-> "throw", err |-> "TypeError: kernels[0] is not a function"]
  ELSE IF Len(ks.elems) = 1
  THEN Call(ks.elems[1], cont, trace, options)
  ELSE Call(ks.elems[1],
            [t |-> "iterCont", cont |-> cont, kernels |-> OArr(Tail(ks.elems)),
             options |-> options],
            trace, options)

sequenceKernelCall(cont, oldTrace, options) ==
  IF "kernels" \notin OwnKeys(options)
  THEN [op |-> "throw", err |-> "TypeError: cannot read property length of undefined"]
  ELSE iter(cont, oldTrace, OwnGet(options, "kernels"), options)

HMCwithMHKernelCall(cont, oldTrace, options) ==
  Call(HMCKernel, [t |-> "mhCont", cont |-> cont, options |-> options],
       oldTrace, options)

\* the options HMCwithMHKernel's continuation hands to MHKernel
mhContOpts(options) ==
  extendOwn2(OMap([x \in {"discreteOnly"} |-> OBool(TRUE)]), options)

mhContCall(f, trace) == Call(MHKernel, f.cont, trace, mhContOpts(f.options))

\* parseOptions
isKernelOption(obj) ==
  \/ obj.t = "str" /\ obj.s \in KernelNames
  \/ /\ obj.t = "object"
     /\ Cardinality(DOMAIN obj.props) = 1
     /\ DOMAIN obj.props \subseteq KernelNames

getKernelName(obj) ==
  IF obj.t = "str" THEN obj.s ELSE CHOOSE name \in DOMAIN obj.props : TRUE

getKernelOptions(obj) ==
  IF obj.t = "str" THEN EmptyObj ELSE obj.props[getKernelName(obj)]

RECURSIVE parseOptions(_)
parseOptions(obj) ==
  IF isKernelOption(obj)
  THEN [t |-> "kernelClosure", name |-> getKernelName(obj),
        options |-> parseOptions(getKernelOptions(obj))]
  ELSE IF obj.t = "array"
  THEN OArr([i \in 1..Len(obj.elems) |-> parseOptions(obj.elems[i])])
  ELSE IF obj.t = "object"
  THEN OMap([x \in DOMAIN obj.props |-> parseOptions(obj.props[x])])
  ELSE obj

\* (a merge in which the static options win)
closureAllOptionsStaticWins(options, extraOptions) ==
  extendOwn3(EmptyObj, extraOptions, options)

\* allOptions of the closure parseOptions returns
closureAllOptions(options, extraOptions) ==
  extendOwn3(EmptyObj, options, extraOptions)

kernelClosureCall(f, cont, oldTrace, extraOptions) ==
  Call(kernels[f.name], cont, oldTrace, closureAllOptions(f.options, extraOptions))

\* sequence(k1, ..., kn): [ok, fn]; ok is FALSE when the assertion fails
RECURSIVE sequence(_)
sequence(ks) ==
  IF ~(Len(ks) > 1) THEN [ok |-> FALSE, fn |-> OUndef]
  ELSE IF Len(ks) = 2
  THEN [ok |-> TRUE, fn |-> [t |-> "sequence2", kernels |-> ks]]
  ELSE LET rest == sequence(Tail(ks))
       IN  IF ~rest.ok THEN rest ELSE sequence(<<ks[1], rest.fn>>)

\* (a composition that runs the second kernel first)
sequence2CallSwapped(f, k, trace1) ==
  Call(f.kernels[2], [t |-> "sequence2Cont", kernels |-> f.kernels, k |-> k],
       trace1, OUndef)

\* the kernel sequence returns for two kernels, and its inner continuation
sequence2Call(f, k, trace1) ==
  Call(f.kernels[1], [t |-> "sequence2Cont", kernels |-> f.kernels, k |-> k],
       trace1, OUndef)

sequence2ContCall(f, trace2) == Call(f.kernels[2], f.k, trace2, OUndef)

\* util.cpsIterate(n, initial, func, cont): func applied n times, each to the
\* value the one before delivered, then cont with the last value
cpsIterate(n, initial, func, cont) ==
  IF n <= 0 THEN Resume(cont, initial)
  ELSE Call(func, [t |-> "iterateCont", n |-> n - 1, func |-> func, cont |-> cont],
            initial, OUndef)

iterateContCall(f, val) == cpsIterate(f.n, val, f.func, f.cont)

repeat(n, kernel) == [t |-> "repeat", n |-> n, kernel |-> kernel]

\* (a loop that runs once too often)
repeatCallOnceMore(f, k, trace) == cpsIterate(f.n + 1, trace, f.kernel, k)

\* the kernel repeat returns
repeatCall(f, k, trace) == cpsIterate(f.n, trace, f.kernel, k)

(***************************************************************************)
(* The requests of the driver.                                             *)
(***************************************************************************)

Leaves == {MHKernel, HMCKernel}

ref(name, static) == OMap([x \in {name} |-> static])
obj1(k, v) == OMap([x \in {k} |-> v])
obj2(k1, v1, k2, v2) == OMap([x \in {k1, k2} |-> IF x = k1 THEN v1 ELSE v2])

KernelLists ==
  { OArr(<<OStr("MH")>>),
    OArr(<<OStr("MH"), OStr("HMConly")>>),
    OArr(<<OStr("HMC"), OStr("MH"), OStr("HMConly")>>),
    OArr(<<ref("HMC", obj1("steps", ONum(5))), OStr("MH")>>),
    \* a sequence reference nested in the list
    OArr(<<OStr("MH"), ref("sequence", obj1("kernels", OArr(<<OStr("HMConly")>>)))>>),
    OArr(<<ref("sequence", obj1("kernels", OArr(<<OStr("HMConly"), OStr("MH")>>)))>>) }

StaticOptions ==
  { EmptyObj,
    obj1("steps", ONum(10)),
    obj2("steps", ONum(10), "discreteOnly", OBool(FALSE)),
    obj1("discreteOnly", OBool(TRUE)) }
  \cup {obj1("kernels", l) : l \in KernelLists}
  \cup {obj2("kernels", l, "steps", ONum(10)) : l \in KernelLists}

ExtraOptions ==
  { OUndef, EmptyObj, obj1("steps", ONum(20)), obj1("discreteOnly", OBool(FALSE)),
    obj2("exitFactor", ONum(1), "discreteOnly", OBool(TRUE)) }

RECURSIVE ListsUpTo(_, _)
ListsUpTo(S, n) ==
  IF n = 0 THEN {<<>>}
  ELSE ListsUpTo(S, n - 1)
         \cup {<<x>> \o l : x \in S, l \in {m \in ListsUpTo(S, n - 1) : Len(m) = n - 1}}

\* The kernels handed to sequence and repeat: the leaves, and compositions of two.
Arguments == Leaves \cup {sequence(<<MHKernel, HMCKernel>>).fn,
                          sequence(<<HMCKernel, HMCKernel>>).fn}

InitialTraces == {<<>>, <<"start">>}

Requests ==
  \* parseOptions('N') (bare, static is then the {} getKernelOptions supplies) and
  \* parseOptions({N: static}), the result called with (k, trace, extra)
  {[kind |-> "parseOptions", name |-> name, bare |-> TRUE, static |-> EmptyObj,
    extra |-> e, trace |-> <<>>] :
     name \in KernelNames, e \in ExtraOptions}
  \cup {[kind |-> "parseOptions", name |-> name, bare |-> FALSE, static |-> static,
          extra |-> e, trace |-> <<>>] :
          name \in KernelNames, static \in StaticOptions, e \in ExtraOptions}
  \cup {[kind |-> "sequence", kernels |-> l, trace |-> t] :
          l \in ListsUpTo(Arguments, MaxSeqLen), t \in InitialTraces}
  \cup {[kind |-> "repeat", n |-> n, kernel |-> a, trace |-> t] :
          n \in 0..MaxRepeat, a \in Arguments, t \in InitialTraces}

(***************************************************************************)
(* The kernel machine: the driver builds a kernel, calls it with its       *)
(* continuation k, and every function invocation after that is one step.   *)
(***************************************************************************)

CpsIdle ==
  /\ pc = "idle"
  /\ input = NoNode
  /\ output = NoNode
  /\ thrown = ""
  /\ gensymCounter = 0
  /\ cpsRun = NotRun
  /\ directRun = NotRun

InitKernel ==
  /\ kpc = "request"
  /\ request \in Requests
  /\ kernelFn = [t |-> "none"]
  /\ control = [op |-> "none"]
  /\ calls = <<>>
  /\ kcalls = <<>>
  /\ steps = 0
  /\ CpsIdle

K == [t |-> "k"]

\* the value the driver hands to parseOptions
RequestObj(r) == IF r.bare THEN OStr(r.name) ELSE ref(r.name, r.static)

ParseOptions ==
  /\ kpc = "request"
  /\ request.kind = "parseOptions"
  /\ kernelFn' = parseOptions(RequestObj(request))
  /\ kpc' = "built"
  /\ UNCHANGED <<request, control, calls, kcalls, steps>>
  /\ UNCHANGED cpsVars

Sequence ==
  /\ kpc = "request"
  /\ request.kind = "sequence"
  /\ LET r == sequence(request.kernels)
     IN  /\ kernelFn' = r.fn
         /\ kpc' = IF r.ok THEN "built" ELSE "failed"
  /\ UNCHANGED <<request, control, calls, kcalls, steps>>
  /\ UNCHANGED cpsVars

Repeat ==
  /\ kpc = "request"
  /\ request.kind = "repeat"
  /\ kernelFn' = repeat(request.n, request.kernel)
  /\ kpc' = "built"
  /\ UNCHANGED <<request, control, calls, kcalls, steps>>
  /\ UNCHANGED cpsVars

\* the driver calls the kernel: kernelFn(k, trace, extraOptions)
Invoke ==
  /\ kpc = "built"
  /\ control' = Call(kernelFn, K, request.trace,
                     IF request.kind = "parseOptions" THEN request.extra ELSE OUndef)
  /\ kpc' = "running"
  /\ UNCHANGED <<request, kernelFn, calls, kcalls, steps>>
  /\ UNCHANGED cpsVars

\* One invocation ran and made the invocation next (or threw).
Run(next) ==
  /\ kpc = "running"
  /\ steps < MaxSteps
  /\ steps' = steps + 1
  /\ control' = IF next.op = "throw" THEN [op |-> "none"] ELSE next
  /\ kpc' = IF next.op = "throw" THEN "failed" ELSE kpc
  /\ UNCHANGED <<request, kernelFn>>
  /\ UNCHANGED cpsVars

Calling(type) == control.op = "call" /\ control.fn.t = type
Resuming(type) == control.op = "resume" /\ control.fn.t = type

\* MHKernel and HMCKernel: the kernel takes the trace, makes its transition and
\* invokes its continuation once with the new trace.
LeafKernel ==
  /\ control.op = "call"
  /\ control.fn.t \in LeafTypes
  /\ calls' = Append(calls, [kernel |-> control.fn.t, trace |-> control.trace,
                             options |-> control.options])
  /\ Run(Resume(control.cont, Append(control.trace, control.fn.t)))
  /\ UNCHANGED kcalls

HMCwithMH ==
  /\ Calling("HMCwithMHKernel")
  /\ Run(HMCwithMHKernelCall(control.cont, control.trace, control.options))
  /\ UNCHANGED <<calls, kcalls>>

MhCont ==
  /\ Resuming("mhCont")
  /\ Run(mhContCall(control.fn, control.trace))
  /\ UNCHANGED <<calls, kcalls>>

SequenceKernel ==
  /\ Calling("sequenceKernel")
  /\ Run(sequenceKernelCall(control.cont, control.trace, control.options))
  /\ UNCHANGED <<calls, kcalls>>

IterCont ==
  /\ Resuming("iterCont")
  /\ Run(iter(control.fn.cont, control.trace, control.fn.kernels, control.fn.options))
  /\ UNCHANGED <<calls, kcalls>>

KernelClosure ==
  /\ Calling("kernelClosure")
  /\ Run(kernelClosureCall(control.fn, control.cont, control.trace, control.options))
  /\ UNCHANGED <<calls, kcalls>>

Sequence2 ==
  /\ Calling("sequence2")
  /\ Run(sequence2Call(control.fn, control.cont, control.trace))
  /\ UNCHANGED <<calls, kcalls>>

Sequence2Cont ==
  /\ Resuming("sequence2Cont")
  /\ Run(sequence2ContCall(control.fn, control.trace))
  /\ UNCHANGED <<calls, kcalls>>

RepeatKernel ==
  /\ Calling("repeat")
  /\ Run(repeatCall(control.fn, control.cont, control.trace))
  /\ UNCHANGED <<calls, kcalls>>

IterateCont ==
  /\ Resuming("iterateCont")
  /\ Run(iterateContCall(control.fn, control.trace))
  /\ UNCHANGED <<calls, kcalls>>

\* the driver's continuation k receives the final trace
Deliver ==
  /\ Resuming("k")
  /\ kpc = "running"
  /\ steps < MaxSteps
  /\ steps' = steps + 1
  /\ kcalls' = Append(kcalls, control.trace)
  /\ control' = [op |-> "none"]
  /\ kpc' = "done"
  /\ UNCHANGED <<request, kernelFn, calls>>
  /\ UNCHANGED cpsVars

NextKernel ==
  \/ ParseOptions \/ Sequence \/ Repeat \/ Invoke
  \/ LeafKernel \/ HMCwithMH \/ MhCont \/ SequenceKernel \/ IterCont
  \/ KernelClosure \/ Sequence2 \/ Sequence2Cont \/ RepeatKernel \/ IterateCont
  \/ Deliver

SpecKernel == InitKernel /\ [][NextKernel]_allVars

\* JavaScript runs every invocation it has started: a step that can be taken is taken.
FairSpecKernel == SpecKernel /\ WF_allVars(NextKernel)

(***************************************************************************)
(* Properties of the kernel framework.                                     *)
(***************************************************************************)

\* The leaf kernels a combinator-built kernel runs, in order.
RECURSIVE LeavesOf(_)
LeavesOf(f) ==
  CASE f.t \in LeafTypes -> <<f.t>>
    [] f.t = "sequence2" -> LeavesOf(f.kernels[1]) \o LeavesOf(f.kernels[2])
    [] OTHER -> <<>>

RECURSIVE LeavesOfList(_)
LeavesOfList(ks) ==
  IF ks = <<>> THEN <<>> ELSE LeavesOf(ks[1]) \o LeavesOfList(Tail(ks))

RECURSIVE Repeated(_, _)
Repeated(names, n) == IF n = 0 THEN <<>> ELSE names \o Repeated(names, n - 1)

\* The leaf kernels a list of kernel references names, in order: MH and HMConly
\* are leaves, HMC is HMC then MH, a sequence reference is its own list.
RECURSIVE LeavesOfRefs(_)
LeavesOfRef(r) ==
  LET name == IF r.t = "str" THEN r.s ELSE CHOOSE x \in DOMAIN r.props : TRUE
  IN  CASE name = "MH" -> <<"MHKernel">>
        [] name = "HMConly" -> <<"HMCKernel">>
        [] name = "HMC" -> <<"HMCKernel", "MHKernel">>
        [] name = "sequence" -> LeavesOfRefs(r.props["sequence"].props["kernels"].elems)
LeavesOfRefs(rs) ==
  IF rs = <<>> THEN <<>> ELSE LeavesOfRef(rs[1]) \o LeavesOfRefs(Tail(rs))

\* The run so far is a run of exactly the leaf kernels expected, each once, in
\* order, each on the trace its predecessor delivered, and k is invoked once, at
\* the end, with the last trace.
RunsInOrder(expected) ==
  /\ Len(calls) <= Len(expected)
  /\ \A i \in 1..Len(calls) :
       /\ calls[i].kernel = expected[i]
       /\ calls[i].trace = request.trace \o SubSeq(expected, 1, i - 1)
  /\ Len(kcalls) <= 1
  /\ kcalls # <<>> => kpc = "done"
  /\ kpc = "done" => /\ Len(calls) = Len(expected)
                     /\ kcalls = <<request.trace \o expected>>
  /\ kpc # "failed"
  /\ kpc = "running" => steps < MaxSteps

\* C4 (as claimed): in the composed HMC kernel MH runs after HMC, on the trace HMC
\* delivered, with discreteOnly true whatever the outer options are, and with
\* every other outer option unchanged.
C4_MHAlwaysDiscreteOnly ==
  (request.kind = "parseOptions" /\ request.name = "HMC" /\ Len(calls) >= 2)
    => /\ calls[1].kernel = "HMCKernel"
       /\ calls[2].kernel = "MHKernel"
       /\ calls[2].trace = Append(calls[1].trace, "HMCKernel")
       /\ OwnKeys(calls[2].options) = OwnKeys(calls[1].options) \cup {"discreteOnly"}
       /\ OwnGet(calls[2].options, "discreteOnly") = OBool(TRUE)
       /\ \A key \in OwnKeys(calls[1].options) \ {"discreteOnly"} :
            OwnGet(calls[2].options, key) = OwnGet(calls[1].options, key)

\* The state right after the closure parseOptions returned was called.
ClosureCalled == request.kind = "parseOptions" /\ kpc = "running" /\ steps = 1

\* The closure called the kernel registered under its name, with the cont and
\* the trace it was given, and with options made of base overridden by extra.
DispatchedWith(base) ==
  /\ control.op = "call"
  /\ control.fn = kernels[request.name]
  /\ control.cont = K
  /\ control.trace = request.trace
  /\ OwnKeys(control.options) = OwnKeys(base) \cup OwnKeys(request.extra)
  /\ \A key \in OwnKeys(request.extra) :
       OwnGet(control.options, key) = OwnGet(request.extra, key)
  /\ \A key \in OwnKeys(base) \ OwnKeys(request.extra) :
       OwnGet(control.options, key) = OwnGet(base, key)

\* C5 (as claimed): the closure calls the kernel registered under N once, with the
\* same cont and trace, and with options equal to staticOptions overridden key by
\* key by extraOptions.
C5_OptionsAreStaticOverridden == ClosureCalled => DispatchedWith(request.static)

\* C5 (amended): the options are the compiled staticOptions (every kernel reference
\* in them replaced by its closure, every other value kept) overridden key by key
\* by extraOptions; the closure still holds the compiled staticOptions afterwards.
C5_OptionsAreCompiledStaticOverridden ==
  ClosureCalled =>
    /\ DispatchedWith(kernelFn.options)
    /\ kernelFn.t = "kernelClosure"
    /\ kernelFn.name = request.name
    /\ OwnKeys(kernelFn.options) = OwnKeys(request.static)
    /\ \A key \in OwnKeys(request.static) :
         LET raw == OwnGet(request.static, key)
             compiled == OwnGet(kernelFn.options, key)
         IN  /\ raw.t \in {"num", "bool", "undefined"} => compiled = raw
             /\ raw.t = "array" =>
                  /\ compiled.t = "array"
                  /\ Len(compiled.elems) = Len(raw.elems)
                  /\ \A i \in 1..Len(raw.elems) :
                       raw.elems[i].t = "str" /\ raw.elems[i].s \in KernelNames
                         => /\ compiled.elems[i].t = "kernelClosure"
                            /\ compiled.elems[i].name = raw.elems[i].s
                            /\ compiled.elems[i].options = EmptyObj

\* C5's case: a key set on both sides took the extraOptions value, next to a
\* kernels list that was compiled.
C5_Witness ==
  /\ ClosureCalled
  /\ ~request.bare
  /\ {"steps", "kernels"} \subseteq OwnKeys(request.static)
  /\ "steps" \in OwnKeys(request.extra)
  /\ OwnGet(request.static, "steps") # OwnGet(request.extra, "steps")
  /\ OwnGet(control.options, "steps") = OwnGet(request.extra, "steps")
  /\ OwnGet(control.options, "kernels") # OwnGet(request.static, "kernels")

\* C6 (as claimed): the sequence kernel, given a non-empty kernels list compiled by
\* parseOptions, a nested sequence reference included, runs exactly the kernels of
\* the list, each once, in order, each on its predecessor's trace, and then
\* invokes the continuation once with the last trace.
C6_SequenceKernelRunsList ==
  (/\ request.kind = "parseOptions"
   /\ request.name = "sequence"
   /\ "kernels" \in OwnKeys(request.static)
   /\ "kernels" \notin OwnKeys(request.extra))
    => RunsInOrder(LeavesOfRefs(OwnGet(request.static, "kernels").elems))

\* C7: sequence(k1, ..., kn) fails before any kernel runs when n < 2; for n >= 2
\* the kernel it returns runs k1, ..., kn once each, left to right, each on the
\* trace of the one before, and then invokes the continuation once with kn's
\* trace; sequence(A, B, C) is the kernel sequence(A, sequence(B, C)).
C7_SequenceRunsLeftToRight ==
  request.kind = "sequence" =>
    IF Len(request.kernels) < 2
    THEN /\ kpc \in {"request", "failed"}
         /\ control.op = "none"
         /\ calls = <<>>
         /\ kcalls = <<>>
    ELSE /\ RunsInOrder(LeavesOfList(request.kernels))
         /\ (kpc # "request" /\ Len(request.kernels) = 3) =>
              kernelFn = [t |-> "sequence2",
                          kernels |-> <<request.kernels[1],
                                        [t |-> "sequence2",
                                         kernels |-> Tail(request.kernels)]>>]

\* C7's case: three kernels, one of them itself a composition, have run to the end.
C7_Witness ==
  /\ request.kind = "sequence"
  /\ Len(request.kernels) = 3
  /\ request.kernels[2].t = "sequence2"
  /\ kpc = "done"
  /\ Len(calls) = 4
  /\ kcalls = <<request.trace \o LeavesOfList(request.kernels)>>

RepeatInv ==
  request.kind = "repeat" =>
    /\ RunsInOrder(Repeated(LeavesOf(request.kernel), request.n))
    /\ (kpc = "done" /\ request.kernel.t \in LeafTypes) =>
         Len(kcalls[1]) = Len(request.trace) + request.n

\* C8: the kernel repeat(n, kernel) returns applies kernel n times, each time to
\* the trace the application before delivered, and then, eventually, invokes k
\* exactly once; a kernel that increments the trace's counter leaves it n higher.
C8_RepeatAppliesKernelNTimes ==
  /\ []RepeatInv
  /\ (request.kind = "repeat") ~> (request.kind = "repeat" /\ kpc = "done")

\* C8's case: the largest n, all applications made and k invoked.
C8_Witness ==
  /\ request.kind = "repeat"
  /\ request.n = MaxRepeat
  /\ request.kernel.t \in LeafTypes
  /\ kpc = "done"
  /\ Len(calls) = MaxRepeat
  /\ Len(kcalls) = 1
  /\ Len(kcalls[1]) = Len(request.trace) + MaxRepeat

====
